---------------------------- MODULE Spec2Model ----------------------------
(***************************************************************************)
(* Model of the research-data pipeline scripts                             *)
(*   02_preprocess.py   (reviewer-type attribution fold),                  *)
(*   04_metrics_rq2.py  (comment column, categories, sentiment, stats),    *)
(*   05_metrics_rq3.py  (cohort split, descriptives, tests, summary).      *)
(* Every script is a straight-line batch program; each statement or loop   *)
(* iteration that changes the script's data is one action, and pc is the   *)
(* position in the running script.  A string is a sequence of one-char     *)
(* strings, so that lower() and the substring test `in` are computed.      *)
(***************************************************************************)
EXTENDS Integers, Sequences, FiniteSets, TLC

VARIABLES
    pc,                 \* position in the running script
    rq2_data,           \* 04: the comment frame, one record per row
    rq2_has_id,         \* 04: whether the frame has a column named "id"
    rq2_columns,        \* 04: rq2_data.columns, in their order
    comment_column,     \* 04: the column the two functions are applied to
    category_stats,     \* 04: the per-category statistics frame
    categories,         \* 04: column rq2_data["categories"]
    sentiment,          \* 04: column rq2_data["sentiment"]
    expanded_rows,      \* 04: list of expanded rows
    iter,               \* number of rows/groups the running loop has consumed
    pr_reviews,         \* 02: review rows (PR link value, login value)
    pr_comments,        \* 02: comment rows (PR link value, login value)
    reviews_columns,    \* 02: column names of pr_reviews
    comments_columns,   \* 02: column names of pr_comments
    login_cols,         \* 02: pr_reviews_login_col, pr_comments_login_col
    pr_id_cols,         \* 02: pr_id_col_reviews, pr_id_col_comments
    grouped,            \* 02: the groupby result being iterated
    reviewer_type_map,  \* 02: dict PR id -> "bot" / "human"
    pr_clean,           \* 02: the "id" column of the cleaned PR frame
    reviewer_type,      \* 02: column pr_clean["reviewer_type"]
    rq3_data,           \* 05: the AI PR frame
    closed_loop_prs,    \* 05: index labels of the closed-loop cohort
    open_loop_prs,      \* 05: index labels of the open-loop cohort
    results,            \* 05: list of result rows
    summary             \* 05: the summary dict, one list per column

vars == << pc, rq2_data, rq2_has_id, rq2_columns, comment_column, category_stats,
           categories, sentiment, expanded_rows, iter,
           pr_reviews, pr_comments, reviews_columns, comments_columns, login_cols,
           pr_id_cols, grouped, reviewer_type_map, pr_clean, reviewer_type,
           rq3_data, closed_loop_prs, open_loop_prs, results, summary >>

vars_rq2 == << rq2_data, rq2_has_id, rq2_columns, comment_column, category_stats,
               categories, sentiment, expanded_rows >>

vars_pre == << pr_reviews, pr_comments, reviews_columns, comments_columns, login_cols,
               pr_id_cols, grouped, reviewer_type_map, pr_clean, reviewer_type >>

vars_rq3 == << rq3_data, closed_loop_prs, open_loop_prs, results, summary >>

(***************************************************************************)
(* Bounds of the model.                                                    *)
(***************************************************************************)
\* words per comment text in the single-comment frames
MaxWords == 3
\* rows of the multi-comment frames of 04_metrics_rq2.py
MaxComments == 2
\* rows of pr_reviews and pr_comments together in 02_preprocess.py
MaxRows == 3
\* rows of rq3_data in 05_metrics_rq3.py
MaxPRs == 3
\* comments of each kind in the large comment frame of 04_metrics_rq2.py
LargeRun == 800

(***************************************************************************)
(* Strings.                                                                *)
(***************************************************************************)
\* a missing value (None / NaN) and a present string
Null == [isna |-> TRUE, str |-> << >>]

Str(s) == [isna |-> FALSE, str |-> s]

\* pd.isna(x)
isna(x) == x.isna

UpperChars == << "A","B","C","D","E","F","G","H","I","J","K","L","M",
                 "N","O","P","Q","R","S","T","U","V","W","X","Y","Z" >>

LowerChars == << "a","b","c","d","e","f","g","h","i","j","k","l","m",
                 "n","o","p","q","r","s","t","u","v","w","x","y","z" >>

\* str.lower() on one character
lower_char(c) ==
    IF \E i \in 1..Len(UpperChars) : UpperChars[i] = c
    THEN LowerChars[CHOOSE i \in 1..Len(UpperChars) : UpperChars[i] = c]
    ELSE c

\* str.lower()
lower(s) == [i \in 1..Len(s) |-> lower_char(s[i])]

\* Python's `keyword in text` on strings: keyword occurs as a contiguous substring
contains(text, keyword) ==
    \E i \in 1..(Len(text) - Len(keyword) + 1) :
        /\ text[i] = keyword[1]
        /\ SubSeq(text, i, i + Len(keyword) - 1) = keyword

\* any(keyword in text for keyword in keywords)
any_keyword_in(keywords, text) ==
    \E k \in 1..Len(keywords) : contains(text, keywords[k])

DigitChars == << "0", "1", "2", "3", "4", "5", "6", "7", "8", "9" >>

RECURSIVE int_to_str(_)
\* str(n) of a natural number
int_to_str(n) ==
    IF n < 10 THEN << DigitChars[n + 1] >>
    ELSE int_to_str(n \div 10) \o << DigitChars[(n % 10) + 1] >>

(***************************************************************************)
(* 04_metrics_rq2.py: keyword lists, categorize_comment, analyze_sentiment *)
(***************************************************************************)
CORRECTIVE_KEYWORDS ==
    << <<"b","u","g">>,
       <<"e","r","r","o","r">>,
       <<"f","i","x">>,
       <<"w","r","o","n","g">>,
       <<"i","n","c","o","r","r","e","c","t">>,
       <<"m","i","s","t","a","k","e">>,
       <<"i","s","s","u","e">>,
       <<"p","r","o","b","l","e","m">>,
       <<"b","r","o","k","e","n">>,
       <<"f","a","i","l","s">>,
       <<"e","x","c","e","p","t","i","o","n">>,
       <<"c","r","a","s","h">>,
       <<"n","u","l","l">>,
       <<"u","n","d","e","f","i","n","e","d">> >>

STYLE_KEYWORDS ==
    << <<"s","t","y","l","e">>,
       <<"f","o","r","m","a","t">>,
       <<"i","n","d","e","n","t">>,
       <<"s","p","a","c","i","n","g">>,
       <<"n","a","m","i","n","g">>,
       <<"c","o","n","v","e","n","t","i","o","n">>,
       <<"l","i","n","t">>,
       <<"p","e","p","8">>,
       <<"p","y","l","i","n","t">>,
       <<"f","o","r","m","a","t","t","i","n","g">>,
       <<"w","h","i","t","e","s","p","a","c","e">>,
       <<"s","e","m","i","c","o","l","o","n">>,
       <<"b","r","a","c","e">> >>

SECURITY_KEYWORDS ==
    << <<"s","e","c","u","r","i","t","y">>,
       <<"v","u","l","n","e","r","a","b","i","l","i","t","y">>,
       <<"x","s","s">>,
       <<"s","q","l"," ","i","n","j","e","c","t","i","o","n">>,
       <<"c","s","r","f">>,
       <<"a","u","t","h">>,
       <<"a","u","t","h","e","n","t","i","c","a","t","i","o","n">>,
       <<"a","u","t","h","o","r","i","z","a","t","i","o","n">>,
       <<"p","a","s","s","w","o","r","d">>,
       <<"t","o","k","e","n">>,
       <<"s","e","c","r","e","t">>,
       <<"k","e","y">>,
       <<"e","n","c","r","y","p","t">>,
       <<"h","a","s","h">>,
       <<"s","a","n","i","t","i","z","e">>,
       <<"e","s","c","a","p","e">>,
       <<"i","n","j","e","c","t","i","o","n">> >>

TESTING_KEYWORDS ==
    << <<"t","e","s","t">>,
       <<"t","e","s","t","i","n","g">>,
       <<"c","o","v","e","r","a","g","e">>,
       <<"u","n","i","t"," ","t","e","s","t">>,
       <<"i","n","t","e","g","r","a","t","i","o","n">>,
       <<"m","o","c","k">>,
       <<"a","s","s","e","r","t">>,
       <<"s","h","o","u","l","d"," ","t","e","s","t">>,
       <<"m","i","s","s","i","n","g"," ","t","e","s","t">>,
       <<"t","e","s","t"," ","c","a","s","e">>,
       <<"s","c","e","n","a","r","i","o">> >>

positive_words ==
    << <<"g","o","o","d">>,
       <<"g","r","e","a","t">>,
       <<"n","i","c","e">>,
       <<"e","x","c","e","l","l","e","n","t">>,
       <<"p","e","r","f","e","c","t">>,
       <<"t","h","a","n","k","s">>,
       <<"t","h","a","n","k"," ","y","o","u">>,
       <<"a","p","p","r","o","v","e","d">>,
       <<"l","o","o","k","s"," ","g","o","o","d">>,
       <<"w","e","l","l"," ","d","o","n","e">>,
       <<"l","g","t","m">> >>

negative_words ==
    << <<"b","a","d">>,
       <<"w","r","o","n","g">>,
       <<"i","n","c","o","r","r","e","c","t">>,
       <<"s","h","o","u","l","d"," ","n","o","t">>,
       <<"d","o","n","'","t">>,
       <<"c","a","n","n","o","t">>,
       <<"e","r","r","o","r">>,
       <<"i","s","s","u","e">>,
       <<"p","r","o","b","l","e","m">>,
       <<"c","o","n","c","e","r","n">>,
       <<"w","o","r","r","i","e","d">>,
       <<"d","i","s","a","p","p","o","i","n","t","e","d">> >>

\* lines 67-80: the labels appended to `categories`, in the order of the four tests
detected_categories(text_lower) ==
    (IF any_keyword_in(CORRECTIVE_KEYWORDS, text_lower) THEN << "corrective" >> ELSE << >>)
    \o (IF any_keyword_in(STYLE_KEYWORDS, text_lower) THEN << "style" >> ELSE << >>)
    \o (IF any_keyword_in(SECURITY_KEYWORDS, text_lower) THEN << "security" >> ELSE << >>)
    \o (IF any_keyword_in(TESTING_KEYWORDS, text_lower) THEN << "testing" >> ELSE << >>)

\* categorize_comment with the four tests chained as if / elif: only the first
\* matching label is kept
categorize_comment_elif(comment_text) ==
    IF isna(comment_text)
    THEN << >>
    ELSE LET cats == detected_categories(lower(comment_text.str))
         IN  IF cats = << >> THEN << "other" >> ELSE << cats[1] >>

categorize_comment(comment_text) ==
    IF isna(comment_text)
    THEN << >>
    ELSE LET text_lower == lower(comment_text.str)
             cats == detected_categories(text_lower)
         IN  IF cats = << >> THEN << "other" >> ELSE cats

\* sum(1 for word in words if word in text_lower)
keyword_count(words, text_lower) ==
    Cardinality({k \in 1..Len(words) : contains(text_lower, words[k])})

positive_count(text_lower) == keyword_count(positive_words, text_lower)

negative_count(text_lower) == keyword_count(negative_words, text_lower)

\* analyze_sentiment with the first comparison written >= instead of >
analyze_sentiment_ge(comment_text) ==
    IF isna(comment_text)
    THEN "neutral"
    ELSE LET text_lower == lower(comment_text.str)
             p == positive_count(text_lower)
             n == negative_count(text_lower)
         IN  IF p >= n THEN "positive"
             ELSE IF n > p THEN "negative"
             ELSE "neutral"

analyze_sentiment(comment_text) ==
    IF isna(comment_text)
    THEN "neutral"
    ELSE LET text_lower == lower(comment_text.str)
             p == positive_count(text_lower)
             n == negative_count(text_lower)
         IN  IF p > n THEN "positive"
             ELSE IF n > p THEN "negative"
             ELSE "neutral"

\* row.get("id", idx)
comment_id_of(row) == IF rq2_has_id THEN row.id ELSE row.index

\* expand_row with the flag computed as len(categories) > 2
expand_row_flag_off_by_one(row, cats, sent) ==
    IF Len(cats) > 0
    THEN [k \in 1..Len(cats) |->
            [pr_id |-> row.pr_id,
             comment_id |-> comment_id_of(row),
             category |-> cats[k],
             sentiment |-> sent,
             has_multiple_categories |-> Len(cats) > 2]]
    ELSE << [pr_id |-> row.pr_id,
             comment_id |-> comment_id_of(row),
             category |-> "other",
             sentiment |-> sent,
             has_multiple_categories |-> FALSE] >>

\* expand_row without the else branch: a comment with no label gets no row
expand_row_no_else(row, cats, sent) ==
    [k \in 1..Len(cats) |->
        [pr_id |-> row.pr_id,
         comment_id |-> comment_id_of(row),
         category |-> cats[k],
         sentiment |-> sent,
         has_multiple_categories |-> Len(cats) > 1]]

\* lines 162-178: the rows one iteration of the expansion loop appends
expand_row(row, cats, sent) ==
    IF Len(cats) > 0
    THEN [k \in 1..Len(cats) |->
            [pr_id |-> row.pr_id,
             comment_id |-> comment_id_of(row),
             category |-> cats[k],
             sentiment |-> sent,
             has_multiple_categories |-> Len(cats) > 1]]
    ELSE << [pr_id |-> row.pr_id,
             comment_id |-> comment_id_of(row),
             category |-> "other",
             sentiment |-> sent,
             has_multiple_categories |-> FALSE] >>

(***************************************************************************)
(* 04_metrics_rq2.py: the column the comments are read from.               *)
(***************************************************************************)
ColBody == << "b", "o", "d", "y" >>

ColPrId == << "p", "r", "_", "i", "d" >>

ColId == << "i", "d" >>

ColCommentText == << "C", "o", "m", "m", "e", "n", "t", "_", "T", "e", "x", "t" >>

ColMessage == << "m", "e", "s", "s", "a", "g", "e" >>

\* the alternatives of the pattern "comment|text|content"
COLUMN_PATTERNS ==
    << << "c", "o", "m", "m", "e", "n", "t" >>,
       << "t", "e", "x", "t" >>,
       << "c", "o", "n", "t", "e", "n", "t" >> >>

\* the value None of comment_column
NoColumn == << >>

has_column(columns, name) == \E k \in 1..Len(columns) : columns[k] = name

\* columns[columns.str.contains("comment|text|content", case=False, na=False)]
plausible_columns(columns) ==
    SelectSeq(columns, LAMBDA c : any_keyword_in(COLUMN_PATTERNS, lower(c)))

\* line 149
pick_comment_column(columns) ==
    IF has_column(columns, ColBody) THEN ColBody
    ELSE IF Len(plausible_columns(columns)) > 0 THEN plausible_columns(columns)[1]
    ELSE NoColumn

\* lines 149-153: the picked column, by default the first column of the frame
resolve_comment_column(columns) ==
    IF pick_comment_column(columns) = NoColumn THEN columns[1]
    ELSE pick_comment_column(columns)

\* row[column] as the two functions see it: an integer cell is never missing
\* and str() gives its decimal digits; any other column holds the text
column_value(row, column) ==
    IF column = ColPrId THEN Str(int_to_str(row.pr_id))
    ELSE IF column = ColId THEN Str(int_to_str(row.id))
    ELSE row.body

\* the positions of the expanded rows of a category
rows_of_category(rows, category) == {k \in 1..Len(rows) : rows[k].category = category}

\* groupby("category") visits the categories present in sorted order
CATEGORY_ORDER == << "corrective", "other", "security", "style", "testing" >>

\* x.value_counts().to_dict() of the sentiments of a set of expanded rows
sentiment_distribution(rows, ks) ==
    [s \in {rows[k].sentiment : k \in ks} |->
        Cardinality({k \in ks : rows[k].sentiment = s})]

\* num / den rounded to the nearest integer, a half to the even neighbour
round_half_even(num, den) ==
    LET q == num \div den
        r == num % den
    IN  IF 2 * r > den THEN q + 1
        ELSE IF 2 * r < den THEN q
        ELSE IF q % 2 = 0 THEN q ELSE q + 1

\* the percentage taken over the expanded rows instead of the comments
percentage_of_rows(count, total_comments, total_rows) ==
    round_half_even(count * 10000, total_rows)

\* line 196: (count / total_comments * 100).round(2), in hundredths of a percent
percentage(count, total_comments, total_rows) ==
    round_half_even(count * 10000, total_comments)

\* lines 187-196: one record per category present
category_stats_of(rows, total_comments) ==
    LET present == SelectSeq(CATEGORY_ORDER, LAMBDA c : rows_of_category(rows, c) # {})
    IN  [j \in 1..Len(present) |->
            [category |-> present[j],
             count |-> Cardinality(rows_of_category(rows, present[j])),
             sentiment_distribution |->
                 sentiment_distribution(rows, rows_of_category(rows, present[j])),
             percentage |-> percentage(Cardinality(rows_of_category(rows, present[j])),
                                       total_comments, Len(rows))]]

(***************************************************************************)
(* Inputs of 04_metrics_rq2.py.                                            *)
(***************************************************************************)
\* the column layouts: with "body", with a column the pattern matches, with
\* neither
Layouts ==
    { << ColPrId, ColBody >>,
      << ColId, ColPrId, ColBody >>,
      << ColPrId, ColCommentText >>,
      << ColPrId, ColMessage >>,
      << ColId, ColPrId, ColMessage >> }

Vocabulary ==
    { <<"K","e","y","E","r","r","o","r">>,
      <<"B","r","o","k","e","n">>,
      <<"s","e","c","u","r","i","t","y">>,
      <<"t","e","s","t">>,
      <<"f","o","r","m","a","t">>,
      <<"l","o","o","k","s">>,
      <<"g","o","o","d">>,
      <<"b","a","d">>,
      <<"w","r","o","n","g">>,
      <<"L","G","T","M">>,
      <<"t","h","e">> }

RECURSIVE Join(_)
\* the words separated by one space
Join(ws) ==
    IF Len(ws) = 0 THEN << >>
    ELSE IF Len(ws) = 1 THEN ws[1]
    ELSE ws[1] \o << " " >> \o Join(Tail(ws))

\* every text of at most MaxWords vocabulary words, and the missing text
Texts ==
    {Null} \cup {Str(Join(ws)) : ws \in UNION {[1..k -> Vocabulary] : k \in 0..MaxWords}}

\* the texts of the multi-comment frames
RowTexts ==
    { Null,
      Str(<<"t","h","e">>),
      Str(<<"K","e","y","E","r","r","o","r">>),
      Str(<<"K","e","y","E","r","r","o","r"," ","t","e","s","t">>),
      Str(<<"l","o","o","k","s"," ","g","o","o","d">>) }

PrIds == {1, 2}

\* a frame: row k has index label k-1 and, in the "id" column, 100+k
Frame(prs, bodies) ==
    [k \in 1..Len(bodies) |->
        [pr_id |-> prs[k], index |-> k - 1, id |-> 100 + k, body |-> bodies[k]]]

\* one comment, any text
SingleFrames == {Frame(<< 1 >>, << t >>) : t \in Texts}

\* up to MaxComments comments on the PRs of PrIds
MultiFrames ==
    UNION {{Frame(prs, bodies) : prs \in [1..n -> PrIds], bodies \in [1..n -> RowTexts]} :
           n \in 0..MaxComments}

(***************************************************************************)
(* 04_metrics_rq2.py: the script.                                          *)
(***************************************************************************)
IdleRq2 ==
    /\ rq2_data = << >>
    /\ rq2_has_id = FALSE
    /\ rq2_columns = << >>
    /\ comment_column = NoColumn
    /\ category_stats = << >>
    /\ categories = << >>
    /\ sentiment = << >>
    /\ expanded_rows = << >>

IdlePre ==
    /\ pr_reviews = << >>
    /\ pr_comments = << >>
    /\ reviews_columns = {}
    /\ comments_columns = {}
    /\ login_cols = << >>
    /\ pr_id_cols = << >>
    /\ grouped = << >>
    /\ reviewer_type_map = << >>
    /\ pr_clean = << >>
    /\ reviewer_type = << >>

IdleRq3 ==
    /\ rq3_data = << >>
    /\ closed_loop_prs = << >>
    /\ open_loop_prs = << >>
    /\ results = << >>
    /\ summary = << >>

\* lines 136-139: the comment frame is loaded
InitRq2 ==
    /\ pc = "rq2_resolve"
    /\ \/ rq2_data \in SingleFrames /\ rq2_columns = << ColPrId, ColBody >>
       \/ rq2_data \in MultiFrames /\ rq2_columns \in Layouts
    /\ rq2_has_id = has_column(rq2_columns, ColId)
    /\ comment_column = NoColumn
    /\ category_stats = << >>
    /\ categories = << >>
    /\ sentiment = << >>
    /\ expanded_rows = << >>
    /\ iter = 0
    /\ IdlePre
    /\ IdleRq3

\* the columns the loaded frame keeps all along
frame_rq2 == << rq2_data, rq2_has_id, rq2_columns >>

\* lines 149-153
ResolveColumn ==
    /\ pc = "rq2_resolve"
    /\ comment_column' = resolve_comment_column(rq2_columns)
    /\ pc' = "rq2_categorize"
    /\ UNCHANGED << frame_rq2, category_stats, categories, sentiment, expanded_rows, iter,
                    vars_pre, vars_rq3 >>

\* row[comment_column]
comment_text(row) == column_value(row, comment_column)

\* line 155
ApplyCategorize ==
    /\ pc = "rq2_categorize"
    /\ categories' = [i \in 1..Len(rq2_data) |-> categorize_comment(comment_text(rq2_data[i]))]
    /\ pc' = "rq2_sentiment"
    /\ UNCHANGED << frame_rq2, comment_column, category_stats, sentiment, expanded_rows, iter,
                    vars_pre, vars_rq3 >>

\* line 156
ApplySentiment ==
    /\ pc = "rq2_sentiment"
    /\ sentiment' = [i \in 1..Len(rq2_data) |-> analyze_sentiment(comment_text(rq2_data[i]))]
    /\ pc' = "rq2_expand"
    /\ UNCHANGED << frame_rq2, comment_column, category_stats, categories, expanded_rows, iter,
                    vars_pre, vars_rq3 >>

\* lines 161-178: one iteration of the loop over rq2_data.iterrows()
ExpandRow ==
    /\ pc = "rq2_expand"
    /\ iter < Len(rq2_data)
    /\ expanded_rows' = expanded_rows
            \o expand_row(rq2_data[iter + 1], categories[iter + 1], sentiment[iter + 1])
    /\ iter' = iter + 1
    /\ UNCHANGED << pc, frame_rq2, comment_column, category_stats, categories, sentiment,
                    vars_pre, vars_rq3 >>

\* line 180: the loop is over, expanded_df is built
ExpandDone ==
    /\ pc = "rq2_expand"
    /\ iter = Len(rq2_data)
    /\ pc' = "rq2_stats"
    /\ UNCHANGED << frame_rq2, comment_column, category_stats, categories, sentiment,
                    expanded_rows, iter, vars_pre, vars_rq3 >>

\* lines 187-196: the statistics by category
CategoryStats ==
    /\ pc = "rq2_stats"
    /\ expanded_rows # << >>
    /\ category_stats' = category_stats_of(expanded_rows, Len(rq2_data))
    /\ pc' = "rq2_stats_done"
    /\ UNCHANGED << frame_rq2, comment_column, categories, sentiment, expanded_rows, iter,
                    vars_pre, vars_rq3 >>

\* line 187 on a frame without rows: expanded_df has no column "category" and
\* groupby raises KeyError
CategoryStatsKeyError ==
    /\ pc = "rq2_stats"
    /\ expanded_rows = << >>
    /\ pc' = "rq2_crashed"
    /\ UNCHANGED << vars_rq2, iter, vars_pre, vars_rq3 >>

NextRq2 ==
    \/ ResolveColumn
    \/ ApplyCategorize \/ ApplySentiment \/ ExpandRow \/ ExpandDone
    \/ CategoryStats \/ CategoryStatsKeyError

SpecRq2 == InitRq2 /\ [][NextRq2]_vars

\* a frame of 5 * LargeRun + 4 comments on one PR: LargeRun comments with only
\* a corrective keyword, LargeRun with only a security keyword, one with both,
\* and LargeRun + 1 each with a style keyword, a testing keyword, no keyword
LargeFrame ==
    LET text(k) ==
            IF k <= LargeRun THEN << "b", "u", "g" >>
            ELSE IF k <= 2 * LargeRun THEN << "x", "s", "s" >>
            ELSE IF k = 2 * LargeRun + 1 THEN << "b", "u", "g", " ", "x", "s", "s" >>
            ELSE IF k <= 3 * LargeRun + 2 THEN << "l", "i", "n", "t" >>
            ELSE IF k <= 4 * LargeRun + 3 THEN << "t", "e", "s", "t" >>
            ELSE << "o", "k" >>
    IN  [k \in 1..(5 * LargeRun + 4) |->
            [pr_id |-> 1, index |-> k - 1, id |-> 100 + k, body |-> Str(text(k))]]

\* lines 136-139: a frame with a "body" column is loaded, small or large
InitRq2Large ==
    /\ pc = "rq2_resolve"
    /\ rq2_data \in MultiFrames \cup {LargeFrame}
    /\ rq2_columns = << ColPrId, ColBody >>
    /\ rq2_has_id = has_column(rq2_columns, ColId)
    /\ comment_column = NoColumn
    /\ category_stats = << >>
    /\ categories = << >>
    /\ sentiment = << >>
    /\ expanded_rows = << >>
    /\ iter = 0
    /\ IdlePre
    /\ IdleRq3

RECURSIVE expand_rows(_, _)
\* the rows the loop appends for the comments lo..hi, in their order
expand_rows(lo, hi) ==
    IF lo > hi THEN << >>
    ELSE IF lo = hi THEN expand_row(rq2_data[lo], categories[lo], sentiment[lo])
    ELSE expand_rows(lo, (lo + hi) \div 2) \o expand_rows(((lo + hi) \div 2) + 1, hi)

\* lines 160-180: the whole loop over rq2_data.iterrows()
ExpandAll ==
    /\ pc = "rq2_expand"
    /\ iter = 0
    /\ expanded_rows' = expand_rows(1, Len(rq2_data))
    /\ iter' = Len(rq2_data)
    /\ pc' = "rq2_stats"
    /\ UNCHANGED << frame_rq2, comment_column, category_stats, categories, sentiment,
                    vars_pre, vars_rq3 >>

\* the script with its loop taken as one step
NextRq2Large ==
    \/ ResolveColumn
    \/ ApplyCategorize \/ ApplySentiment \/ ExpandAll
    \/ CategoryStats \/ CategoryStatsKeyError

SpecRq2Large == InitRq2Large /\ [][NextRq2Large]_vars

(***************************************************************************)
(* 02_preprocess.py: reviewer-type attribution.                            *)
(***************************************************************************)
BOT_KEYWORDS ==
    << <<"c","o","p","i","l","o","t">>,
       <<"c","u","r","s","o","r">>,
       <<"c","o","d","e","x">>,
       <<"c","l","a","u","d","e">>,
       <<"d","e","v","i","n">> >>

\* the value None of a column name that was not found
None == "None"

REVIEWS_LOGIN_CANDIDATES ==
    << "author_login", "user_login", "login", "reviewer_login", "actor_login" >>

COMMENTS_LOGIN_CANDIDATES ==
    << "author_login", "user_login", "login", "commenter_login", "actor_login", "user" >>

\* the first candidate that is a column of the frame, else None
_pick_login_col(columns, candidates) ==
    IF \E k \in 1..Len(candidates) : candidates[k] \in columns
    THEN LET first == CHOOSE k \in 1..Len(candidates) :
                        /\ candidates[k] \in columns
                        /\ \A j \in 1..(k - 1) : candidates[j] \notin columns
         IN  candidates[first]
    ELSE None

\* lines 90-91: "pr_id", else "pull_request_id", else None
pick_pr_id_col(columns) ==
    IF "pr_id" \in columns THEN "pr_id"
    ELSE IF "pull_request_id" \in columns THEN "pull_request_id"
    ELSE None

\* series.fillna("").astype(str) on the login column
fillna_str(rows) ==
    [k \in 1..Len(rows) |->
        [rows[k] EXCEPT !.login = IF isna(rows[k].login) THEN Str(<< >>) ELSE rows[k].login]]

RECURSIVE sorted_keys(_)
\* the keys of a groupby, in increasing order
sorted_keys(S) ==
    IF S = {} THEN << >>
    ELSE LET m == CHOOSE x \in S : \A y \in S : x <= y
         IN  << m >> \o sorted_keys(S \ {m})

\* the logins of the rows of one PR, in row order
logins_of(rows, p) ==
    LET sel == SelectSeq(rows, LAMBDA r : r.pr_id = p)
    IN  [k \in 1..Len(sel) |-> sel[k].login.str]

\* df.groupby(pr_id_col)[login_col].apply(list): one (pr_id, logins) per PR
groupby_logins(rows) ==
    LET keys == sorted_keys({rows[k].pr_id : k \in 1..Len(rows)})
    IN  [g \in 1..Len(keys) |-> [pr_id |-> keys[g], logins |-> logins_of(rows, keys[g])]]

\* any(any(k in (l or "").lower() for k in BOT_KEYWORDS) for l in logins)
has_bot_login(logins) ==
    \E j \in 1..Len(logins) : any_keyword_in(BOT_KEYWORDS, lower(logins[j]))

\* d[key] = value
dict_set(d, key, value) ==
    [k \in (DOMAIN d) \cup {key} |-> IF k = key THEN value ELSE d[k]]

\* d.setdefault(key, value)
dict_setdefault(d, key, value) ==
    IF key \in DOMAIN d THEN d ELSE dict_set(d, key, value)

\* the loop body with the else branch written reviewer_type_map[pr_id] = "human"
fold_step_overwrite(map, group) ==
    IF has_bot_login(group.logins)
    THEN dict_set(map, group.pr_id, "bot")
    ELSE dict_set(map, group.pr_id, "human")

\* lines 105-108 and 115-118: the body of the loop over the groups
fold_step(map, group) ==
    IF has_bot_login(group.logins)
    THEN dict_set(map, group.pr_id, "bot")
    ELSE dict_setdefault(map, group.pr_id, "human")

\* map_reviewer_type with the default written "human"
map_reviewer_type_default_human(pr_id) ==
    IF pr_id \in DOMAIN reviewer_type_map THEN reviewer_type_map[pr_id] ELSE "human"

\* reviewer_type_map.get(pr_id, "none")
map_reviewer_type(pr_id) ==
    IF pr_id \in DOMAIN reviewer_type_map THEN reviewer_type_map[pr_id] ELSE "none"

(***************************************************************************)
(* Inputs of 02_preprocess.py.                                             *)
(***************************************************************************)
\* a missing login, a human login, a bot login with upper-case letters
Logins ==
    { Null,
      Str(<<"a","l","i","c","e">>),
      Str(<<"C","o","p","i","l","o","t","-","b","o","t">>) }

SourceRows == [pr_id : PrIds, login : Logins]

\* the ids of pr_clean: PR 3 has no review and no comment
CleanIds == << 1, 2, 3 >>

\* the column names of (pr_reviews, pr_comments): both usable under the first
\* names, both usable under later names, and a login or a link column missing
ColumnCases ==
    { << {"pr_id", "author_login", "state"}, {"pr_id", "author_login", "body"} >>,
      << {"pull_request_id", "reviewer_login", "actor_login", "state"},
         {"pull_request_id", "user", "body"} >>,
      << {"pr_id", "state"}, {"pr_id", "user_login", "body"} >>,
      << {"pr_id", "login", "state"}, {"user", "body"} >>,
      << {"login", "state"}, {"pr_id", "body"} >> }

FramesOfLen(n) == [1..n -> SourceRows]

(***************************************************************************)
(* 02_preprocess.py: the script.                                           *)
(***************************************************************************)
\* lines 29-49: the frames are loaded and pr_clean is built
InitPre ==
    /\ pc = "pre_pick"
    /\ \E n \in 0..MaxRows : \E m \in 0..(MaxRows - n) :
        /\ pr_reviews \in FramesOfLen(n)
        /\ pr_comments \in FramesOfLen(m)
    /\ \E c \in ColumnCases :
        /\ reviews_columns = c[1]
        /\ comments_columns = c[2]
    /\ login_cols = << >>
    /\ pr_id_cols = << >>
    /\ grouped = << >>
    /\ reviewer_type_map = << >>
    /\ pr_clean = CleanIds
    /\ reviewer_type = << >>
    /\ iter = 0
    /\ IdleRq2
    /\ IdleRq3

\* lines 86-94
PickColumns ==
    /\ pc = "pre_pick"
    /\ login_cols' = [reviews |-> _pick_login_col(reviews_columns, REVIEWS_LOGIN_CANDIDATES),
                      comments |-> _pick_login_col(comments_columns, COMMENTS_LOGIN_CANDIDATES)]
    /\ pr_id_cols' = [reviews |-> pick_pr_id_col(reviews_columns),
                      comments |-> pick_pr_id_col(comments_columns)]
    /\ reviewer_type_map' = << >>
    /\ pc' = "pre_reviews"
    /\ UNCHANGED << pr_reviews, pr_comments, reviews_columns, comments_columns, grouped,
                    pr_clean, reviewer_type, iter, vars_rq2, vars_rq3 >>

\* the test of lines 97 and 111
usable(source) == pr_id_cols[source] # None /\ login_cols[source] # None

\* lines 97-102: the reviews are usable, their logins are normalised and grouped
ReviewsGroup ==
    /\ pc = "pre_reviews"
    /\ usable("reviews")
    /\ pr_reviews' = fillna_str(pr_reviews)
    /\ grouped' = groupby_logins(fillna_str(pr_reviews))
    /\ iter' = 0
    /\ pc' = "pre_reviews_loop"
    /\ UNCHANGED << pr_comments, reviews_columns, comments_columns, login_cols, pr_id_cols,
                    reviewer_type_map, pr_clean, reviewer_type, vars_rq2, vars_rq3 >>

\* line 97 is false: the reviews are skipped
ReviewsSkip ==
    /\ pc = "pre_reviews"
    /\ ~usable("reviews")
    /\ pc' = "pre_comments"
    /\ UNCHANGED << vars_pre, iter, vars_rq2, vars_rq3 >>

\* lines 103-108: one group of the reviews
ReviewsStep ==
    /\ pc = "pre_reviews_loop"
    /\ iter < Len(grouped)
    /\ reviewer_type_map' = fold_step(reviewer_type_map, grouped[iter + 1])
    /\ iter' = iter + 1
    /\ UNCHANGED << pc, pr_reviews, pr_comments, reviews_columns, comments_columns,
                    login_cols, pr_id_cols, grouped, pr_clean, reviewer_type,
                    vars_rq2, vars_rq3 >>

ReviewsEnd ==
    /\ pc = "pre_reviews_loop"
    /\ iter = Len(grouped)
    /\ pc' = "pre_comments"
    /\ UNCHANGED << vars_pre, iter, vars_rq2, vars_rq3 >>

\* lines 111-113
CommentsGroup ==
    /\ pc = "pre_comments"
    /\ usable("comments")
    /\ pr_comments' = fillna_str(pr_comments)
    /\ grouped' = groupby_logins(fillna_str(pr_comments))
    /\ iter' = 0
    /\ pc' = "pre_comments_loop"
    /\ UNCHANGED << pr_reviews, reviews_columns, comments_columns, login_cols, pr_id_cols,
                    reviewer_type_map, pr_clean, reviewer_type, vars_rq2, vars_rq3 >>

\* line 111 is false: the comments are skipped
CommentsSkip ==
    /\ pc = "pre_comments"
    /\ ~usable("comments")
    /\ pc' = "pre_apply"
    /\ UNCHANGED << vars_pre, iter, vars_rq2, vars_rq3 >>

\* lines 114-118: one group of the comments
CommentsStep ==
    /\ pc = "pre_comments_loop"
    /\ iter < Len(grouped)
    /\ reviewer_type_map' = fold_step(reviewer_type_map, grouped[iter + 1])
    /\ iter' = iter + 1
    /\ UNCHANGED << pc, pr_reviews, pr_comments, reviews_columns, comments_columns,
                    login_cols, pr_id_cols, grouped, pr_clean, reviewer_type,
                    vars_rq2, vars_rq3 >>

CommentsEnd ==
    /\ pc = "pre_comments_loop"
    /\ iter = Len(grouped)
    /\ pc' = "pre_apply"
    /\ UNCHANGED << vars_pre, iter, vars_rq2, vars_rq3 >>

\* line 124
ApplyMapping ==
    /\ pc = "pre_apply"
    /\ reviewer_type' = [k \in 1..Len(pr_clean) |-> map_reviewer_type(pr_clean[k])]
    /\ pc' = "pre_done"
    /\ UNCHANGED << pr_reviews, pr_comments, reviews_columns, comments_columns, login_cols,
                    pr_id_cols, grouped, reviewer_type_map, pr_clean, iter,
                    vars_rq2, vars_rq3 >>

NextPre ==
    \/ PickColumns
    \/ ReviewsGroup \/ ReviewsSkip \/ ReviewsStep \/ ReviewsEnd
    \/ CommentsGroup \/ CommentsSkip \/ CommentsStep \/ CommentsEnd
    \/ ApplyMapping

SpecPre == InitPre /\ [][NextPre]_vars

(***************************************************************************)
(* Properties of 02_preprocess.py.                                         *)
(***************************************************************************)
\* a source is read when its frame has a PR-link column and a login column
ReviewsUsable ==
    /\ pick_pr_id_col(reviews_columns) # None
    /\ _pick_login_col(reviews_columns, REVIEWS_LOGIN_CANDIDATES) # None

CommentsUsable ==
    /\ pick_pr_id_col(comments_columns) # None
    /\ _pick_login_col(comments_columns, COMMENTS_LOGIN_CANDIDATES) # None

\* the rows of PR p in a frame
RowsOfPr(rows, p) == {k \in 1..Len(rows) : rows[k].pr_id = p}

\* a login that holds a bot keyword after lower-casing
IsBotLogin(l) == ~isna(l) /\ any_keyword_in(BOT_KEYWORDS, lower(l.str))

BotInReviews(p) ==
    ReviewsUsable /\ \E k \in RowsOfPr(pr_reviews, p) : IsBotLogin(pr_reviews[k].login)

BotInComments(p) ==
    CommentsUsable /\ \E k \in RowsOfPr(pr_comments, p) : IsBotLogin(pr_comments[k].login)

\* PR p has a row in a source that is read
Observed(p) ==
    \/ ReviewsUsable /\ RowsOfPr(pr_reviews, p) # {}
    \/ CommentsUsable /\ RowsOfPr(pr_comments, p) # {}

\* C7: a PR with a bot login among its review rows or its comment rows has
\* reviewer_type "bot", whatever its other logins and whichever source the bot
\* login came from.
C7_BotLoginMakesBot ==
    pc = "pre_done" =>
        \A k \in 1..Len(pr_clean) :
            (BotInReviews(pr_clean[k]) \/ BotInComments(pr_clean[k]))
                => reviewer_type[k] = "bot"

\* PR 1 has only human reviews and a bot comment
C7_Witness ==
    /\ pc = "pre_done"
    /\ ReviewsUsable
    /\ RowsOfPr(pr_reviews, 1) # {}
    /\ ~BotInReviews(1)
    /\ BotInComments(1)
    /\ \E k \in RowsOfPr(pr_comments, 1) : ~IsBotLogin(pr_comments[k].login)
    /\ reviewer_type[1] = "bot"

\* C8: once reviewer_type_map[p] is "bot", no step of the fold changes or removes
\* that entry.
C8_BotIsAbsorbing ==
    [][\A p \in DOMAIN reviewer_type_map :
            reviewer_type_map[p] = "bot"
                => (p \in DOMAIN reviewer_type_map' /\ reviewer_type_map'[p] = "bot")]_vars

\* PR 1 was marked bot by the reviews pass and the comments pass then saw only
\* non-bot logins for it
C8_Witness ==
    /\ pc = "pre_apply"
    /\ BotInReviews(1)
    /\ CommentsUsable
    /\ RowsOfPr(pr_comments, 1) # {}
    /\ ~BotInComments(1)
    /\ reviewer_type_map[1] = "bot"

\* C9: reviewer_type is one of bot, human, none; a PR without a bot login is
\* "human" exactly when it has a row in a source that is read and "none" exactly
\* when it has none (with both sources read: no review and no comment); a source
\* without its PR-link or login column is not read, and when neither is read
\* every PR is "none".
C9_HumanOrNone ==
    pc = "pre_done" =>
        \A k \in 1..Len(pr_clean) :
            LET p == pr_clean[k]
                bot == BotInReviews(p) \/ BotInComments(p)
            IN  /\ reviewer_type[k] \in {"bot", "human", "none"}
                /\ ~bot => /\ (reviewer_type[k] = "human") <=> Observed(p)
                           /\ (reviewer_type[k] = "none") <=> ~Observed(p)
                /\ (ReviewsUsable /\ CommentsUsable) =>
                        ((reviewer_type[k] = "none")
                            <=> (RowsOfPr(pr_reviews, p) = {} /\ RowsOfPr(pr_comments, p) = {}))
                /\ (~ReviewsUsable /\ ~CommentsUsable) => reviewer_type[k] = "none"

\* the reviews are skipped, PR 1 is human through a comment, PR 2 has only a
\* review that is not read, PR 3 has nothing
C9_Witness ==
    /\ pc = "pre_done"
    /\ ~ReviewsUsable
    /\ CommentsUsable
    /\ RowsOfPr(pr_reviews, 2) # {}
    /\ reviewer_type = << "human", "none", "none" >>

RECURSIVE fold(_, _)
\* the loop body applied to a sequence of groups in its order
fold(map, groups) ==
    IF groups = << >> THEN map
    ELSE fold(fold_step(map, Head(groups)), Tail(groups))

\* the groups the code visits: the reviews pass, then the comments pass
GroupsInCodeOrder ==
    (IF ReviewsUsable THEN groupby_logins(fillna_str(pr_reviews)) ELSE << >>)
    \o (IF CommentsUsable THEN groupby_logins(fillna_str(pr_comments)) ELSE << >>)

\* the orders in which n groups can be visited
Orders(n) == {f \in [1..n -> 1..n] : \A i, j \in 1..n : f[i] = f[j] => i = j}

\* C18: the final reviewer_type_map does not depend on the order in which the
\* evidence is processed: the groups of the two passes visited in any order
\* (the comments pass first, or the PR groups of a pass permuted) give the map
\* the code computes with the reviews pass followed by the comments pass.
C18_FoldIsOrderIndependent ==
    pc \in {"pre_apply", "pre_done"} =>
        /\ reviewer_type_map = fold(<< >>, GroupsInCodeOrder)
        /\ \A order \in Orders(Len(GroupsInCodeOrder)) :
              fold(<< >>, [k \in 1..Len(GroupsInCodeOrder) |-> GroupsInCodeOrder[order[k]]])
                  = reviewer_type_map

\* PR 1 has a bot login in its reviews and only non-bot logins in its comments,
\* so the two passes disagree on it; another PR was seen as well
C18_Witness ==
    /\ pc = "pre_done"
    /\ BotInReviews(1)
    /\ CommentsUsable
    /\ RowsOfPr(pr_comments, 1) # {}
    /\ ~BotInComments(1)
    /\ Len(GroupsInCodeOrder) = 3
    /\ reviewer_type_map[1] = "bot"
    /\ 2 \in DOMAIN reviewer_type_map

(***************************************************************************)
(* Properties of 04_metrics_rq2.py.                                        *)
(***************************************************************************)
Range(s) == {s[k] : k \in 1..Len(s)}

\* the "categories" column is computed
Categorized ==
    pc \in {"rq2_sentiment", "rq2_expand", "rq2_stats", "rq2_stats_done", "rq2_crashed"}

\* the "categories" and "sentiment" columns are computed
Scored == pc \in {"rq2_expand", "rq2_stats", "rq2_stats_done", "rq2_crashed"}

\* the texts of the frame that are not missing
NonNullRows == {i \in 1..Len(rq2_data) : ~isna(comment_text(rq2_data[i]))}

NullRows == {i \in 1..Len(rq2_data) : isna(comment_text(rq2_data[i]))}

LowerBody(i) == lower(comment_text(rq2_data[i]).str)

\* the expanded rows that came from comment i
RowsOf(i) ==
    SelectSeq(expanded_rows, LAMBDA r : r.comment_id = comment_id_of(rq2_data[i]))

\* C1: for every non-null text, each of corrective / style / security / testing is
\* in the returned list exactly when a keyword of its list is a substring of the
\* lower-cased text; the list is the single label "other" exactly when no list
\* matches; it is never empty and never holds "other" beside another label.
C1_CategoriesMatchKeywords ==
    Categorized =>
        \A i \in NonNullRows :
            LET L == Range(categories[i])
                t == LowerBody(i)
                c == any_keyword_in(CORRECTIVE_KEYWORDS, t)
                s == any_keyword_in(STYLE_KEYWORDS, t)
                x == any_keyword_in(SECURITY_KEYWORDS, t)
                g == any_keyword_in(TESTING_KEYWORDS, t)
            IN  /\ ("corrective" \in L) <=> c
                /\ ("style" \in L) <=> s
                /\ ("security" \in L) <=> x
                /\ ("testing" \in L) <=> g
                /\ (categories[i] = << "other" >>) <=> ~(c \/ s \/ x \/ g)
                /\ categories[i] # << >>
                /\ ("other" \in L) => L = {"other"}
                /\ L \subseteq {"corrective", "style", "security", "testing", "other"}

\* "Broken security" is categorised corrective and security
C1_Witness ==
    /\ Categorized
    /\ \E i \in NonNullRows :
        /\ comment_text(rq2_data[i]).str = <<"B","r","o","k","e","n"," ","s","e","c","u","r","i","t","y">>
        /\ categories[i] = << "corrective", "security" >>

\* C2: for every null text the category set is {"other"} and the sentiment is
\* "neutral".
C2_NullTextIsOtherNeutral ==
    Scored =>
        \A i \in NullRows :
            /\ Range(categories[i]) = {"other"}
            /\ sentiment[i] = "neutral"

\* the texts holding both a corrective and a security keyword
CorrectiveSecurityRows ==
    {i \in NonNullRows :
        /\ any_keyword_in(CORRECTIVE_KEYWORDS, LowerBody(i))
        /\ any_keyword_in(SECURITY_KEYWORDS, LowerBody(i))}

\* C3 as stated: every text holding a corrective and a security keyword gets
\* exactly the category set {corrective, security}, and its expanded rows carry
\* has_multiple_categories = TRUE.
C3_ExactlyCorrectiveSecurity ==
    pc = "rq2_stats" =>
        \A i \in CorrectiveSecurityRows :
            /\ Range(categories[i]) = {"corrective", "security"}
            /\ \A k \in 1..Len(RowsOf(i)) : RowsOf(i)[k].has_multiple_categories

\* C3 amended: every text holding a corrective and a security keyword gets a
\* category set that contains corrective and security, and is exactly that pair
\* when no style and no testing keyword matches; the comment has expanded rows
\* and all of them carry has_multiple_categories = TRUE.
C3_ContainsCorrectiveSecurity ==
    pc = "rq2_stats" =>
        \A i \in CorrectiveSecurityRows :
            /\ {"corrective", "security"} \subseteq Range(categories[i])
            /\ (~any_keyword_in(STYLE_KEYWORDS, LowerBody(i))
                /\ ~any_keyword_in(TESTING_KEYWORDS, LowerBody(i)))
                   => Range(categories[i]) = {"corrective", "security"}
            /\ Len(RowsOf(i)) >= 2
            /\ \A k \in 1..Len(RowsOf(i)) : RowsOf(i)[k].has_multiple_categories

\* "KeyError" holds "key" and "error": two labels, two flagged rows
C3_Witness ==
    /\ pc = "rq2_stats"
    /\ \E i \in CorrectiveSecurityRows :
        /\ categories[i] = << "corrective", "security" >>
        /\ Len(RowsOf(i)) = 2
        /\ RowsOf(i)[1].has_multiple_categories

\* C4: "positive" only when positive_count > negative_count, "negative" only when
\* negative_count > positive_count, "neutral" whenever the counts are equal
\* (0-0 included); the result is one of the three labels.
C4_SentimentComparesCounts ==
    Scored =>
        /\ \A i \in 1..Len(rq2_data) : sentiment[i] \in {"positive", "negative", "neutral"}
        /\ \A i \in NonNullRows :
            LET p == positive_count(LowerBody(i))
                n == negative_count(LowerBody(i))
            IN  /\ sentiment[i] = "positive" => p > n
                /\ sentiment[i] = "negative" => n > p
                /\ p = n => sentiment[i] = "neutral"

\* a tie that is not 0-0, a 0-0 tie, a positive and a negative text
C4_Witness ==
    /\ Scored
    /\ \E i \in NonNullRows :
        /\ positive_count(LowerBody(i)) = 1
        /\ negative_count(LowerBody(i)) = 1
        /\ sentiment[i] = "neutral"

\* the occurrences (keyword k at position p) of the phrases of `words` in text
Occurrences(words, text) ==
    {<< k, p >> \in (1..Len(words)) \X (1..Len(text)) :
        /\ p + Len(words[k]) - 1 <= Len(text)
        /\ SubSeq(text, p, p + Len(words[k]) - 1) = words[k]}

\* the occurrences that are not inside an occurrence of a longer phrase: a phrase
\* is matched as one unit
UnitOccurrences(words, text) ==
    {o \in Occurrences(words, text) :
        ~\E q \in Occurrences(words, text) :
            /\ Len(words[q[1]]) > Len(words[o[1]])
            /\ q[2] <= o[2]
            /\ o[2] + Len(words[o[1]]) <= q[2] + Len(words[q[1]])}

OccurrenceCount(words, text) == Cardinality(UnitOccurrences(words, text))

\* C5: the counts analyze_sentiment compares are the numbers of substring
\* occurrences of the positive and of the negative phrases in the lower-cased
\* text, a multi-word phrase counted as one unit; so the sentiment is the
\* comparison of these occurrence counts.
C5_CountsAreOccurrences ==
    Scored =>
        \A i \in NonNullRows :
            LET p == OccurrenceCount(positive_words, LowerBody(i))
                n == OccurrenceCount(negative_words, LowerBody(i))
            IN  /\ positive_count(LowerBody(i)) = p
                /\ negative_count(LowerBody(i)) = n
                /\ sentiment[i] = (IF p > n THEN "positive"
                                   ELSE IF n > p THEN "negative" ELSE "neutral")

\* C6: every comment the loop has consumed has exactly one expanded row per label
\* of its category list (one row labelled "other" when the list is empty), all
\* with the comment's pr_id, comment id and sentiment, and with one
\* has_multiple_categories flag that is TRUE exactly when the comment has two or
\* more labels; a comment not yet consumed has no row.
C6_OneRowPerLabel ==
    Scored =>
        /\ \A i \in 1..iter :
            LET rows == RowsOf(i)
                L == Range(categories[i])
            IN  /\ Len(rows) = (IF L = {} THEN 1 ELSE Cardinality(L))
                /\ {rows[k].category : k \in 1..Len(rows)} = (IF L = {} THEN {"other"} ELSE L)
                /\ \A k \in 1..Len(rows) :
                    /\ rows[k].pr_id = rq2_data[i].pr_id
                    /\ rows[k].comment_id = comment_id_of(rq2_data[i])
                    /\ rows[k].sentiment = sentiment[i]
                    /\ rows[k].has_multiple_categories = (Cardinality(L) >= 2)
        /\ \A i \in (iter + 1)..Len(rq2_data) : RowsOf(i) = << >>

\* a frame with a three-label comment and a null-text comment, both expanded
C6_Witness ==
    /\ pc = "rq2_stats"
    /\ \E i, j \in 1..Len(rq2_data) :
        /\ Len(categories[i]) = 3
        /\ Len(RowsOf(i)) = 3
        /\ categories[j] = << >>
        /\ Len(RowsOf(j)) = 1
        /\ RowsOf(j)[1].category = "other"

(***************************************************************************)
(* 05_metrics_rq3.py: closed-loop / open-loop cohorts.                     *)
(***************************************************************************)
\* a numeric cell: NaN (missing) or a number
NaN == [isna |-> TRUE, val |-> 0]

Num(v) == [isna |-> FALSE, val |-> v]

\* the pandas comparison cell == v: False for a missing cell
cell_eq(cell, v) == ~cell.isna /\ cell.val = v

\* rq3_data[rq3_data["closed_loop"] == 1]
closed_cohort(data) == SelectSeq(data, LAMBDA r : cell_eq(r.closed_loop, 1))

\* the open-loop cohort taken as every row that is not closed-loop
open_cohort_not_closed(data) == SelectSeq(data, LAMBDA r : ~cell_eq(r.closed_loop, 1))

\* rq3_data[rq3_data["closed_loop"] == 0]
open_cohort(data) == SelectSeq(data, LAMBDA r : cell_eq(r.closed_loop, 0))

\* lines 60-69: the first result row; the value is the fraction num / den
proportion_row(data, closed, open) ==
    [metric |-> "closed_loop_proportion",
     value |-> IF Len(data) > 0 THEN [num |-> Len(closed), den |-> Len(data)]
               ELSE [num |-> 0, den |-> 1],
     closed_loop_count |-> Len(closed),
     open_loop_count |-> Len(open),
     total |-> Len(data)]

\* closed_loop is 1, 0, missing, or another number
ClosedLoopValues == {Num(1), Num(0), NaN, Num(2)}

(***************************************************************************)
(* Numbers of 05_metrics_rq3.py.  A statistic is the exact fraction        *)
(* num / den; a float the model does not compute (an asymptotic or a       *)
(* chi-square p-value) is Float; the float nan is NanStat.                 *)
(***************************************************************************)
Frac(n, d) == [kind |-> "exact", num |-> n, den |-> d]

Float == [kind |-> "float", num |-> 0, den |-> 1]

NanStat == [kind |-> "nan", num |-> 0, den |-> 1]

\* series.dropna() of one column of a cohort, in row order
dropna(rows, field) ==
    LET sel == SelectSeq(rows, LAMBDA r : ~r[field].isna)
    IN  [k \in 1..Len(sel) |-> sel[k][field].val]

RECURSIVE seq_sum(_)
seq_sum(s) == IF s = << >> THEN 0 ELSE Head(s) + seq_sum(Tail(s))

RECURSIVE sorted_values(_)
\* the values in increasing order
sorted_values(s) ==
    IF s = << >> THEN << >>
    ELSE LET k == CHOOSE i \in 1..Len(s) : \A j \in 1..Len(s) : s[i] <= s[j]
         IN  << s[k] >> \o sorted_values(SubSeq(s, 1, k - 1) \o SubSeq(s, k + 1, Len(s)))

\* series.median() of a non-empty sample
median(s) ==
    LET x == sorted_values(s)
        n == Len(s)
    IN  IF n % 2 = 1 THEN Frac(x[(n + 1) \div 2], 1)
        ELSE Frac(x[n \div 2] + x[(n \div 2) + 1], 2)

\* series.mean() of a non-empty sample
mean(s) == Frac(seq_sum(s), Len(s))

\* series.std(): nan for one value, else the square root of the sample variance
\* (ddof = 1), kept as the variance under the tag "sqrt"
std(s) ==
    LET n == Len(s)
        sq == seq_sum([k \in 1..n |-> s[k] * s[k]])
    IN  IF n < 2 THEN NanStat
        ELSE [kind |-> "sqrt", num |-> n * sq - seq_sum(s) * seq_sum(s), den |-> n * (n - 1)]

\* series.quantile(q4 / 4) with linear interpolation
quantile(s, q4) ==
    LET x == sorted_values(s)
        pos == (Len(s) - 1) * q4
        lo == (pos \div 4) + 1
        r == pos % 4
    IN  IF r = 0 THEN Frac(x[lo], 1)
        ELSE Frac(4 * x[lo] + r * (x[lo + 1] - x[lo]), 4)

\* the pairs (i, j) with a[i] > b[j]
pairs_gt(a, b) == Cardinality({ij \in (1..Len(a)) \X (1..Len(b)) : a[ij[1]] > b[ij[2]]})

pairs_eq(a, b) == Cardinality({ij \in (1..Len(a)) \X (1..Len(b)) : a[ij[1]] = b[ij[2]]})

\* twice the Mann-Whitney statistic U of the first sample (ties count one half)
mwu_twice_u(a, b) == 2 * pairs_gt(a, b) + pairs_eq(a, b)

\* whether two values of the pooled sample are equal
has_ties(a, b) ==
    LET z == a \o b
    IN  \E i, j \in 1..Len(z) : i # j /\ z[i] = z[j]

RECURSIVE mwu_count(_, _, _)
\* the number of arrangements of n1 and n2 tie-free values whose statistic is k
mwu_count(k, n1, n2) ==
    IF k < 0 \/ k > n1 * n2 THEN 0
    ELSE IF n1 = 0 \/ n2 = 0 THEN (IF k = 0 THEN 1 ELSE 0)
    ELSE mwu_count(k - n2, n1 - 1, n2) + mwu_count(k, n1, n2 - 1)

RECURSIVE binomial(_, _)
binomial(n, k) ==
    IF k = 0 \/ k = n THEN 1 ELSE binomial(n - 1, k - 1) + binomial(n - 1, k)

\* stats.mannwhitneyu(a, b, alternative='two-sided').pvalue: the exact
\* distribution for tie-free samples with a sample of at most 8 values,
\* 2 * P(U >= max(U1, U2)) clipped to 1; else the normal approximation
mwu_p_value(a, b) ==
    LET n1 == Len(a)
        n2 == Len(b)
        u1 == pairs_gt(a, b)
        u == IF u1 >= n1 * n2 - u1 THEN u1 ELSE n1 * n2 - u1
        tail == seq_sum([k \in 1..(n1 * n2 - u + 1) |-> mwu_count(u + k - 1, n1, n2)])
        total == binomial(n1 + n2, n1)
    IN  IF has_ties(a, b) \/ (n1 > 8 /\ n2 > 8) THEN Float
        ELSE IF 2 * tail >= total THEN Frac(1, 1)
        ELSE Frac(2 * tail, total)

\* the statistic returned by stats.mannwhitneyu
mwu_statistic(a, b) == Frac(mwu_twice_u(a, b), 2)

\* Cliff's delta with the two counts exchanged
cliffs_d_reversed(a, b) == Frac(pairs_gt(b, a) - pairs_gt(a, b), Len(a) * Len(b))

\* cliffs_delta(a, b)[0]: (#(a > b) - #(a < b)) / (len(a) * len(b))
cliffs_d(a, b) == Frac(pairs_gt(a, b) - pairs_gt(b, a), Len(a) * Len(b))

\* cliffs_delta(a, b)[1]: the band of |d| (0.147, 0.33, 0.474)
cliffs_interpretation(d) ==
    LET m == IF d.num < 0 THEN 0 - d.num ELSE d.num
    IN  IF 1000 * m < 147 * d.den THEN "negligible"
        ELSE IF 1000 * m < 330 * d.den THEN "small"
        ELSE IF 1000 * m < 474 * d.den THEN "medium"
        ELSE "large"

\* pd.crosstab(closed_loop, merged): the closed_loop values and the merged values
\* of the rows where both are present
crosstab_rows(data) ==
    {data[k].closed_loop.val : k \in {j \in 1..Len(data) :
        ~data[j].closed_loop.isna /\ ~data[j].merged.isna}}

crosstab_cols(data) ==
    {data[k].merged.val : k \in {j \in 1..Len(data) :
        ~data[j].closed_loop.isna /\ ~data[j].merged.isna}}

\* contingency_table.size
crosstab_size(data) == Cardinality(crosstab_rows(data)) * Cardinality(crosstab_cols(data))

\* the degrees of freedom stats.chi2_contingency reports
chi2_dof(data) ==
    (Cardinality(crosstab_rows(data)) - 1) * (Cardinality(crosstab_cols(data)) - 1)

(***************************************************************************)
(* 05_metrics_rq3.py: the result rows.                                     *)
(***************************************************************************)
\* lines 76-85 and 88-97
duration_row(group, sample) ==
    [metric |-> "review_duration_hours",
     group |-> group,
     median |-> median(sample),
     mean |-> mean(sample),
     std |-> std(sample),
     q25 |-> quantile(sample, 1),
     q75 |-> quantile(sample, 3),
     count |-> Len(sample)]

\* lines 75-97: a row for each cohort with at least one duration
duration_rows(closed, open) ==
    (IF Len(closed) > 0 THEN << duration_row("closed-loop", closed) >> ELSE << >>)
    \o (IF Len(open) > 0 THEN << duration_row("open-loop", open) >> ELSE << >>)

\* lines 100-101: cohort["merged"].mean() if len(cohort) > 0 else 0
merge_rate(cohort) ==
    IF Len(cohort) > 0 THEN mean(dropna(cohort, "merged")) ELSE Frac(0, 1)

\* lines 103-117
merge_row(group, cohort) ==
    [metric |-> "merge_rate",
     group |-> group,
     value |-> merge_rate(cohort),
     count |-> Len(cohort),
     merged |-> IF Len(cohort) > 0 THEN seq_sum(dropna(cohort, "merged")) ELSE 0]

\* lines 124-131 and 134-141
comments_row(group, sample) ==
    [metric |-> "n_comments",
     group |-> group,
     median |-> median(sample),
     mean |-> mean(sample),
     std |-> std(sample),
     count |-> Len(sample)]

\* lines 123-141
comments_rows(closed, open) ==
    (IF Len(closed) > 0 THEN << comments_row("closed-loop", closed) >> ELSE << >>)
    \o (IF Len(open) > 0 THEN << comments_row("open-loop", open) >> ELSE << >>)

\* lines 150-166 and 188-203
mwu_row(metric, a, b) ==
    [metric |-> metric,
     test |-> "Mann-Whitney U",
     statistic |-> mwu_statistic(a, b),
     p_value |-> mwu_p_value(a, b),
     effect_size |-> cliffs_d(a, b),
     effect_interpretation |-> cliffs_interpretation(cliffs_d(a, b))]

\* the test run as soon as one sample has a value
mwu_rows_either(metric, a, b) ==
    IF Len(a) > 0 \/ Len(b) > 0 THEN << mwu_row(metric, a, b) >> ELSE << >>

\* lines 149 and 187: the test is run when both samples have a value
mwu_rows(metric, a, b) ==
    IF Len(a) > 0 /\ Len(b) > 0 THEN << mwu_row(metric, a, b) >> ELSE << >>

\* lines 176-184: with no degree of freedom chi2_contingency returns 0 and 1
chi2_row(data) ==
    [metric |-> "merge_rate",
     test |-> "Chi-square",
     statistic |-> IF chi2_dof(data) = 0 THEN Frac(0, 1) ELSE Float,
     p_value |-> IF chi2_dof(data) = 0 THEN Frac(1, 1) ELSE Float,
     degrees_of_freedom |-> chi2_dof(data)]

\* line 175: the test is run when the table has a cell
chi2_rows(data) ==
    IF crosstab_size(data) > 0 THEN << chi2_row(data) >> ELSE << >>

(***************************************************************************)
(* 05_metrics_rq3.py: the formatted summary.                               *)
(***************************************************************************)
RECURSIVE pow10(_)
pow10(k) == IF k = 0 THEN 1 ELSE 10 * pow10(k - 1)

RECURSIVE zero_pad(_, _)
\* the digits of n on at least `width` places
zero_pad(n, width) ==
    IF width <= 1 THEN int_to_str(n)
    ELSE zero_pad(n \div 10, width - 1) \o << DigitChars[(n % 10) + 1] >>

\* f"{x:.<decimals>f}"; a float the model does not compute prints as "#.#"
format_fixed(x, decimals) ==
    IF x.kind = "nan" THEN << "n", "a", "n" >>
    ELSE IF x.kind = "float" THEN << "#", ".", "#" >>
    ELSE LET m == IF x.num < 0 THEN 0 - x.num ELSE x.num
             scaled == round_half_even(m * pow10(decimals), x.den)
         IN  (IF x.num < 0 THEN << "-" >> ELSE << >>)
             \o int_to_str(scaled \div pow10(decimals))
             \o << "." >>
             \o zero_pad(scaled % pow10(decimals), decimals)

\* f"{x:.2%}"
format_percent(x) ==
    IF x.kind = "exact" THEN format_fixed(Frac(100 * x.num, x.den), 2) \o << "%" >>
    ELSE format_fixed(x, 2) \o << "%" >>

\* the characters of an interpretation label
label_chars(label) ==
    CASE label = "negligible" -> << "n","e","g","l","i","g","i","b","l","e" >>
      [] label = "small" -> << "s","m","a","l","l" >>
      [] label = "medium" -> << "m","e","d","i","u","m" >>
      [] OTHER -> << "l","a","r","g","e" >>

\* f"{d:.3f} ({d_interpretation})"
format_effect(d, label) ==
    format_fixed(d, 3) \o << " ", "(" >> \o label_chars(label) \o << ")" >>

NA == << "N", "/", "A" >>

\* one row of the summary: the metric and its six entries
summary_row(metric, cl_median, ol_median, cl_mean, ol_mean, p_value, effect) ==
    [Metric |-> metric,
     Closed_Loop_Median |-> cl_median,
     Open_Loop_Median |-> ol_median,
     Closed_Loop_Mean |-> cl_mean,
     Open_Loop_Mean |-> ol_mean,
     P_Value |-> p_value,
     Effect_Size |-> effect]

\* lines 237-252 and 264-279: the row of a continuous metric
continuous_summary_row(metric, a, b) ==
    IF Len(a) > 0 /\ Len(b) > 0
    THEN summary_row(metric,
                     format_fixed(median(a), 2), format_fixed(median(b), 2),
                     format_fixed(mean(a), 2), format_fixed(mean(b), 2),
                     format_fixed(mwu_p_value(a, b), 4),
                     format_effect(cliffs_d(a, b), cliffs_interpretation(cliffs_d(a, b))))
    ELSE summary_row(metric, NA, NA, NA, NA, NA, NA)

\* line 61: the proportion as a number
closed_loop_proportion(data, closed, open) ==
    LET value == proportion_row(data, closed, open).value
    IN  Frac(value.num, value.den)

\* lines 228-279: the four rows, in the order they are appended
summary_rows(data, closed, open) ==
    << summary_row("Closed-Loop Proportion",
                   format_percent(closed_loop_proportion(data, closed, open)),
                   NA, NA, NA, NA, NA),
       continuous_summary_row("Review Duration (hours)",
                              dropna(closed, "review_duration_hours"),
                              dropna(open, "review_duration_hours")),
       summary_row("Merge Rate",
                   format_percent(merge_rate(closed)), format_percent(merge_rate(open)),
                   NA, NA,
                   IF crosstab_size(data) > 0 THEN format_fixed(chi2_row(data).p_value, 4)
                   ELSE NA,
                   NA),
       continuous_summary_row("Number of Comments",
                              dropna(closed, "n_comments"), dropna(open, "n_comments")) >>

SummaryColumns ==
    { "Metric", "Closed_Loop_Median", "Open_Loop_Median", "Closed_Loop_Mean",
      "Open_Loop_Mean", "P_Value", "Effect_Size" }

\* lines 217-225: the dict of lists, one list per column
summary_dict(rows) == [c \in SummaryColumns |-> [k \in 1..Len(rows) |-> rows[k][c]]]

(***************************************************************************)
(* Inputs of 05_metrics_rq3.py.                                            *)
(***************************************************************************)
\* (closed_loop, merged, review_duration_hours, n_comments) of the rows drawn
Rq3RowKinds ==
    { << Num(1), Num(1), Num(2), Num(1) >>,
      << Num(1), Num(0), NaN, Num(3) >>,
      << Num(0), Num(1), Num(10), NaN >>,
      << Num(0), Num(0), Num(2), Num(1) >>,
      << Num(0), Num(1), Num(7), Num(2) >>,
      << NaN, Num(1), Num(4), Num(0) >>,
      << Num(2), Num(0), Num(4), Num(2) >> }

Rq3Row(i, kind) ==
    [index |-> i, closed_loop |-> kind[1], merged |-> kind[2],
     review_duration_hours |-> kind[3], n_comments |-> kind[4]]

\* row k has index label k-1
Rq3Frames ==
    UNION {{[k \in 1..n |-> Rq3Row(k - 1, c[k])] :
                c \in [1..n -> {kind \in Rq3RowKinds : kind[1] \in ClosedLoopValues}]} :
           n \in 0..MaxPRs}

\* ten AI PRs, three of them closed-loop, every PR merged
ScenarioFrame ==
    LET closed_loop == << 1, 1, 1, 0, 0, 0, 0, 0, 0, 0 >>
        hours == << 2, 3, 4, 10, 12, 14, 16, 18, 20, 22 >>
    IN  [k \in 1..10 |->
            Rq3Row(k - 1, << Num(closed_loop[k]), Num(1), Num(hours[k]), Num(k - 1) >>)]

\* line 34: the AI PR frame is loaded
InitRq3 ==
    /\ pc = "rq3_split"
    /\ rq3_data \in Rq3Frames \cup {ScenarioFrame}
    /\ closed_loop_prs = << >>
    /\ open_loop_prs = << >>
    /\ results = << >>
    /\ summary = << >>
    /\ iter = 0
    /\ IdleRq2
    /\ IdlePre

\* lines 44-47
SplitCohorts ==
    /\ pc = "rq3_split"
    /\ closed_loop_prs' = closed_cohort(rq3_data)
    /\ open_loop_prs' = open_cohort(rq3_data)
    /\ pc' = "rq3_proportion"
    /\ UNCHANGED << rq3_data, results, summary, iter, vars_rq2, vars_pre >>

\* lines 57-69
AppendProportion ==
    /\ pc = "rq3_proportion"
    /\ results' = << proportion_row(rq3_data, closed_loop_prs, open_loop_prs) >>
    /\ pc' = "rq3_duration"
    /\ UNCHANGED << rq3_data, closed_loop_prs, open_loop_prs, summary, iter,
                    vars_rq2, vars_pre >>

\* line 72
closed_loop_duration == dropna(closed_loop_prs, "review_duration_hours")

\* line 73
open_loop_duration == dropna(open_loop_prs, "review_duration_hours")

\* line 120
closed_loop_comments == dropna(closed_loop_prs, "n_comments")

\* line 121
open_loop_comments == dropna(open_loop_prs, "n_comments")

\* the statements of the script that only append to results
AppendResults(from, rows, to) ==
    /\ pc = from
    /\ results' = results \o rows
    /\ pc' = to
    /\ UNCHANGED << rq3_data, closed_loop_prs, open_loop_prs, summary, iter,
                    vars_rq2, vars_pre >>

\* lines 72-97
DescribeDuration ==
    AppendResults("rq3_duration",
                  duration_rows(closed_loop_duration, open_loop_duration), "rq3_merge")

\* lines 100-117
AppendMergeRate ==
    AppendResults("rq3_merge",
                  << merge_row("closed-loop", closed_loop_prs),
                     merge_row("open-loop", open_loop_prs) >>, "rq3_comments")

\* lines 120-141
DescribeComments ==
    AppendResults("rq3_comments",
                  comments_rows(closed_loop_comments, open_loop_comments),
                  "rq3_test_duration")

\* lines 149-166
TestDuration ==
    AppendResults("rq3_test_duration",
                  mwu_rows("review_duration_hours", closed_loop_duration, open_loop_duration),
                  "rq3_test_merge")

\* lines 170-184
TestMergeRate ==
    AppendResults("rq3_test_merge", chi2_rows(rq3_data), "rq3_test_comments")

\* lines 187-203
TestComments ==
    AppendResults("rq3_test_comments",
                  mwu_rows("n_comments", closed_loop_comments, open_loop_comments),
                  "rq3_summary")

\* lines 211-282: results and the summary are saved
BuildSummary ==
    /\ pc = "rq3_summary"
    /\ summary' = summary_dict(summary_rows(rq3_data, closed_loop_prs, open_loop_prs))
    /\ pc' = "rq3_done"
    /\ UNCHANGED << rq3_data, closed_loop_prs, open_loop_prs, results, iter,
                    vars_rq2, vars_pre >>

NextRq3 ==
    \/ SplitCohorts \/ AppendProportion
    \/ DescribeDuration \/ AppendMergeRate \/ DescribeComments
    \/ TestDuration \/ TestMergeRate \/ TestComments
    \/ BuildSummary

SpecRq3 == InitRq3 /\ [][NextRq3]_vars

\* neither "body" nor a column the pattern matches
NoCommentColumn == pick_comment_column(rq2_columns) = NoColumn

\* C17: when the comment frame has no column named "body" and no column whose
\* name contains comment, text or content, the run halts at the column
\* resolution: no column is substituted and nothing is classified.
C17_MissingColumnHalts ==
    NoCommentColumn =>
        /\ pc = "rq2_resolve"
        /\ comment_column = NoColumn
        /\ categories = << >>
        /\ sentiment = << >>
        /\ expanded_rows = << >>

RECURSIVE SumOf(_, _)
\* the sum of a field over the records of category_stats
SumOf(stats, field) ==
    IF stats = << >> THEN 0 ELSE Head(stats)[field] + SumOf(Tail(stats), field)

\* some comment carries more than one category
MultiCategoryComment == \E i \in 1..Len(categories) : Len(categories[i]) > 1

\* what C19 says of the counts and of each single percentage (in hundredths)
CountsAndSinglePercentages ==
    /\ SumOf(category_stats, "count") = Len(expanded_rows)
    /\ SumOf(category_stats, "count") >= Len(rq2_data)
    /\ (SumOf(category_stats, "count") = Len(rq2_data)) <=> ~MultiCategoryComment
    /\ \A j \in 1..Len(category_stats) : category_stats[j].percentage <= 10000

\* C19 as stated: the per-category counts sum to the number of expanded rows,
\* which is at least the number of comments and equal to it exactly when no
\* comment has more than one category; each percentage is at most 100; the
\* percentages sum to more than 100 whenever a comment is multi-category.
C19_PercentagesExceed100 ==
    pc = "rq2_stats_done" =>
        /\ CountsAndSinglePercentages
        /\ MultiCategoryComment => SumOf(category_stats, "percentage") > 10000

\* C19, amended: the counts and the single percentages as stated; with a
\* multi-category comment the ratios count / comments sum to more than 1, the
\* percentages rounded to two decimals sum to no less than that sum minus
\* 0.025, and to more than 100 when there are fewer than 4000 comments.
C19_PercentagesExceed100UpToRounding ==
    pc = "rq2_stats_done" =>
        /\ CountsAndSinglePercentages
        /\ MultiCategoryComment =>
              /\ SumOf(category_stats, "count") > Len(rq2_data)
              /\ 2 * Len(rq2_data) * SumOf(category_stats, "percentage") + 5 * Len(rq2_data)
                    >= 20000 * SumOf(category_stats, "count")
              /\ Len(rq2_data) < 4000 => SumOf(category_stats, "percentage") > 10000

\* two comments, one of them with three categories: four counted rows
C19_Witness ==
    /\ pc = "rq2_stats_done"
    /\ Len(rq2_data) = 2
    /\ MultiCategoryComment
    /\ SumOf(category_stats, "count") = 4
    /\ SumOf(category_stats, "percentage") = 20000

(***************************************************************************)
(* Properties of 05_metrics_rq3.py.                                        *)
(***************************************************************************)
IndexLabels(rows) == {rows[k].index : k \in 1..Len(rows)}

\* the records whose closed_loop is missing or neither 0 nor 1
ExcludedLabels ==
    {rq3_data[k].index : k \in {j \in 1..Len(rq3_data) :
        rq3_data[j].closed_loop.isna \/ rq3_data[j].closed_loop.val \notin {0, 1}}}

\* C10: the closed-loop cohort (closed_loop = 1), the open-loop cohort
\* (closed_loop = 0) and the excluded records (closed_loop missing or another
\* value) are pairwise disjoint and their sizes sum to the size of the input; no
\* record is duplicated, dropped or defaulted into a cohort; the number of
\* excluded records follows from the emitted result row (total minus the two
\* cohort counts).
C10_CohortsPartitionInput ==
    pc = "rq3_duration" =>
        LET C == IndexLabels(closed_loop_prs)
            O == IndexLabels(open_loop_prs)
            E == ExcludedLabels
        IN  /\ C \cap O = {} /\ C \cap E = {} /\ O \cap E = {}
            /\ C \cup O \cup E = IndexLabels(rq3_data)
            /\ Len(closed_loop_prs) = Cardinality(C)
            /\ Len(open_loop_prs) = Cardinality(O)
            /\ Len(closed_loop_prs) + Len(open_loop_prs) + Cardinality(E) = Len(rq3_data)
            /\ \A k \in 1..Len(closed_loop_prs) :
                /\ cell_eq(closed_loop_prs[k].closed_loop, 1)
                /\ \E j \in 1..Len(rq3_data) : rq3_data[j] = closed_loop_prs[k]
            /\ \A k \in 1..Len(open_loop_prs) :
                /\ cell_eq(open_loop_prs[k].closed_loop, 0)
                /\ \E j \in 1..Len(rq3_data) : rq3_data[j] = open_loop_prs[k]
            /\ results[1].total - results[1].closed_loop_count - results[1].open_loop_count
                    = Cardinality(E)

\* a closed-loop record, an open-loop record and a record with closed_loop missing
C10_Witness ==
    /\ pc = "rq3_duration"
    /\ Len(closed_loop_prs) = 1
    /\ Len(open_loop_prs) = 1
    /\ \E k \in 1..Len(rq3_data) : rq3_data[k].closed_loop.isna
    /\ results[1].total = 3

\* the positions of the result rows of a metric whose field `key` is `val`
RowsWith(metric, key, val) ==
    {k \in 1..Len(results) :
        /\ results[k].metric = metric
        /\ key \in DOMAIN results[k]
        /\ results[k][key] = val}

Groups == {"closed-loop", "open-loop"}

ContinuousMetrics == {"review_duration_hours", "n_comments"}

\* the non-missing values of a field in a cohort
Sample(group, field) ==
    dropna(IF group = "closed-loop" THEN closed_loop_prs ELSE open_loop_prs, field)

\* the control states after both descriptive blocks
AfterDescriptives ==
    {"rq3_test_duration", "rq3_test_merge", "rq3_test_comments", "rq3_summary", "rq3_done"}

\* C11: when a cohort has zero non-missing values for review_duration_hours or
\* n_comments, the descriptive step still emits a result for that cohort and
\* field, with count = 0 and no NaN statistic.
C11_EmptySampleHasRow ==
    pc \in AfterDescriptives =>
        \A group \in Groups, field \in ContinuousMetrics :
            Len(Sample(group, field)) = 0 =>
                \E k \in RowsWith(field, "group", group) :
                    /\ results[k].count = 0
                    /\ results[k].median.kind # "nan"

\* the Mann-Whitney rows of a metric
TestRows(metric) == RowsWith(metric, "test", "Mann-Whitney U")

\* C12: for each continuous metric, when either cohort's non-missing sample is
\* empty no Mann-Whitney / Cliff's delta row is appended and the run goes on to
\* its end; when both samples are non-empty exactly one test row is appended,
\* carrying the U statistic and the delta of the two samples.
C12_TestRowIffBothSamples ==
    /\ pc \in {"rq3_test_duration", "rq3_test_comments"} => ENABLED NextRq3
    /\ pc = "rq3_done" =>
        \A metric \in ContinuousMetrics :
            LET a == Sample("closed-loop", metric)
                b == Sample("open-loop", metric)
            IN  IF Len(a) = 0 \/ Len(b) = 0
                THEN TestRows(metric) = {}
                ELSE /\ Cardinality(TestRows(metric)) = 1
                     /\ \A k \in TestRows(metric) :
                            /\ results[k].statistic = Frac(2 * pairs_gt(a, b) + pairs_eq(a, b), 2)
                            /\ results[k].effect_size.den = Len(a) * Len(b)

\* one metric tested (both samples present) and the other skipped (the open-loop
\* cohort has no n_comments value) in a run that reached its end
C12_Witness ==
    /\ pc = "rq3_done"
    /\ Cardinality(TestRows("review_duration_hours")) = 1
    /\ Len(Sample("closed-loop", "n_comments")) > 0
    /\ Len(Sample("open-loop", "n_comments")) = 0
    /\ TestRows("n_comments") = {}

\* a cohort has no record, or only one merged outcome occurs
DegenerateTable ==
    \/ Len(closed_loop_prs) = 0
    \/ Len(open_loop_prs) = 0
    \/ Cardinality(crosstab_cols(rq3_data)) < 2

\* C13: the chi-square test on closed_loop x merged is omitted whenever the
\* contingency table is degenerate (a cohort with zero records, or only one
\* merged outcome): no merge_rate test row is appended and the P_Value of the
\* Merge Rate row of the summary is "N/A".
C13_DegenerateTableSkipsChiSquare ==
    (pc = "rq3_done" /\ DegenerateTable) =>
        /\ RowsWith("merge_rate", "test", "Chi-square") = {}
        /\ summary.P_Value[3] = NA

\* the value columns of the summary
ValueColumns == SummaryColumns \ {"Metric"}

\* the entries of the summary whose value is missing or whose test is skipped:
\* (column, row) pairs
MissingEntries ==
    LET continuous(row, metric) ==
            IF Len(Sample("closed-loop", metric)) = 0 \/ Len(Sample("open-loop", metric)) = 0
            THEN {<< c, row >> : c \in ValueColumns}
            ELSE {}
    IN  (IF Len(rq3_data) = 0 THEN {<< "Closed_Loop_Median", 1 >>} ELSE {})
        \cup {<< c, 1 >> : c \in ValueColumns \ {"Closed_Loop_Median"}}
        \cup continuous(2, "review_duration_hours")
        \cup (IF Len(closed_loop_prs) = 0 THEN {<< "Closed_Loop_Median", 3 >>} ELSE {})
        \cup (IF Len(open_loop_prs) = 0 THEN {<< "Open_Loop_Median", 3 >>} ELSE {})
        \cup {<< c, 3 >> : c \in {"Closed_Loop_Mean", "Open_Loop_Mean", "Effect_Size"}}
        \cup (IF crosstab_size(rq3_data) = 0 THEN {<< "P_Value", 3 >>} ELSE {})
        \cup continuous(4, "n_comments")

\* C14: whatever the cohort sizes, the summary has one row per metric (Closed-Loop
\* Proportion, Review Duration, Merge Rate, Number of Comments, in that order),
\* the seven columns have the same number of entries, and every missing or
\* skipped entry is "N/A", never a blank or a NaN.
C14_SummaryShape ==
    pc = "rq3_done" =>
        /\ summary.Metric = << "Closed-Loop Proportion", "Review Duration (hours)",
                               "Merge Rate", "Number of Comments" >>
        /\ \A c \in SummaryColumns : Len(summary[c]) = 4
        /\ \A c \in ValueColumns : \A k \in 1..4 :
              /\ summary[c][k] # << >>
              /\ summary[c][k] # << "n", "a", "n" >>
        /\ \A e \in MissingEntries : summary[e[1]][e[2]] = NA

\* C15: the merge rate and merged count of a cohort with no record, and the
\* closed-loop proportion of a collection with no record, are never 0 in the
\* results and are "N/A" in the summary.
C15_EmptyCohortIsNotZero ==
    pc = "rq3_done" =>
        /\ \A group \in Groups :
              Len(IF group = "closed-loop" THEN closed_loop_prs ELSE open_loop_prs) = 0 =>
                  \A k \in RowsWith("merge_rate", "group", group) :
                      /\ results[k].value.num # 0
                      /\ results[k].merged # 0
        /\ Len(closed_loop_prs) = 0 => summary.Closed_Loop_Median[3] = NA
        /\ Len(open_loop_prs) = 0 => summary.Open_Loop_Median[3] = NA
        /\ Len(rq3_data) = 0 =>
              /\ results[1].value.num # 0
              /\ summary.Closed_Loop_Median[1] = NA

\* C16: for ten AI PRs with closed_loop = [1,1,1,0,0,0,0,0,0,0] and
\* review_duration_hours = [2,3,4,10,12,14,16,18,20,22] the closed-loop median
\* is 3, the open-loop median is 16, the two-sided rank-sum test has U = 0 for
\* the closed-loop sample and p < 0.05, and the effect size is delta = -1, of
\* large magnitude.
C16_ScenarioStatistics ==
    (rq3_data = ScenarioFrame /\ pc = "rq3_done") =>
        /\ \E k \in RowsWith("review_duration_hours", "group", "closed-loop") :
              results[k].median.num = 3 * results[k].median.den
        /\ \E k \in RowsWith("review_duration_hours", "group", "open-loop") :
              results[k].median.num = 16 * results[k].median.den
        /\ Cardinality(TestRows("review_duration_hours")) = 1
        /\ \A k \in TestRows("review_duration_hours") :
              /\ results[k].statistic.num = 0
              /\ results[k].p_value.kind = "exact"
              /\ 100 * results[k].p_value.num < 5 * results[k].p_value.den
              /\ results[k].effect_size.num = 0 - results[k].effect_size.den
              /\ results[k].effect_size.den > 0
              /\ results[k].effect_interpretation = "large"
        /\ summary.Closed_Loop_Median[2] = << "3", ".", "0", "0" >>
        /\ summary.Open_Loop_Median[2] = << "1", "6", ".", "0", "0" >>

\* the scenario has been run to its end
C16_Witness ==
    /\ pc = "rq3_done"
    /\ rq3_data = ScenarioFrame
    /\ Len(closed_loop_prs) = 3
    /\ Len(open_loop_prs) = 7
    /\ TestRows("review_duration_hours") # {}

=============================================================================
